---- MODULE Spec2Model ----
(***************************************************************************)
(* Model of medcontext: the client-side session gate (AuthGuard), the      *)
(* pages that use it and the browser state they share (localStorage, the   *)
(* Next.js router), the dashboard layout, and the Supabase database the    *)
(* migrations create (tables, row-level security, triggers, the view).     *)
(*                                                                         *)
(* One browser tab is modelled.  At any time it shows one page, and that   *)
(* page holds one AuthGuard instance.  React's scheduling of the instance  *)
(* is kept: a render commits an output, the passive effects of that commit *)
(* are flushed afterwards, a state update queued by an effect is applied   *)
(* by the next render.                                                     *)
(*                                                                         *)
(* Optional values (JavaScript null) are sequences of length at most one:  *)
(* <<>> is null, <<v>> is the value v.                                     *)
(***************************************************************************)
EXTENDS Naturals, Sequences, FiniteSets, TLC

(* ---------------------------------------------------------------------- *)
(* Bounds                                                                  *)
(* ---------------------------------------------------------------------- *)

\* Re-renders of one gate instance that are caused by its parent page.
MaxRerenders == 2

\* The redirect counter saturates here.
RedirectCap == 3

\* The counter of mounts in succession saturates here.
MountCap == 3

\* Longest path, in segments, given to the highlight comparison.
MaxPathLen == 3

\* Most rows the documents table holds.
MaxDocs == 2

\* Most messages the user sends to one instance of the chat page.
MaxSends == 2

\* Most reply timers whose chat page is gone and that have not fired yet.
MaxOrphans == 1

\* Most notes the user generates.
MaxNotes == 2

\* Most files the user adds to the upload dialog.
MaxFiles == 2

(* ---------------------------------------------------------------------- *)
(* Values                                                                  *)
(* ---------------------------------------------------------------------- *)

Null == <<>>

Some(v) == <<v>>

\* The key the gate reads.
AuthKey == "medcontext_auth"

StorageKeys == {AuthKey}

\* Strings a key may hold: the flag, and values that only resemble it.
StorageValues == {"true", "false", "TRUE", "1", ""}

\* Every content of localStorage: a function from the keys present.
Storages == UNION { [K -> StorageValues] : K \in SUBSET StorageKeys }

\* localStorage.getItem: the string stored, or null when the key is absent.
getItem(storage, key) ==
  IF key \in DOMAIN storage THEN Some(storage[key]) ELSE Null

\* localStorage.setItem.
setItem(storage, key, value) ==
  [k \in (DOMAIN storage) \cup {key} |-> IF k = key THEN value ELSE storage[k]]

(* ---------------------------------------------------------------------- *)
(* Pages                                                                   *)
(* ---------------------------------------------------------------------- *)

\* A path is the sequence of its segments: /dashboard/chat is
\* <<"dashboard", "chat">>.  Two paths are the same string exactly when they
\* are the same sequence.
LoginRoute == <<"login">>

ChatRoute == <<"dashboard", "chat">>

AgentsRoute == <<"dashboard", "ai-agents">>

SettingsRoute == <<"dashboard", "settings">>

Routes == {LoginRoute, ChatRoute, AgentsRoute, SettingsRoute}

DashboardRoutes == {ChatRoute, AgentsRoute, SettingsRoute}

\* A page is the requireAuth prop it passes to its gate (Null: prop left
\* out) and its element tree, outermost component first.
ChatPageBad ==
  [requireAuth |-> Null, tree |-> <<"DashboardLayout", "AuthGuard", "ChatContent">>]

ChatPage ==
  [requireAuth |-> Null, tree |-> <<"AuthGuard", "DashboardLayout", "ChatContent">>]

AIAgentsPage ==
  [requireAuth |-> Null, tree |-> <<"AuthGuard", "DashboardLayout", "AgentsContent">>]

SettingsPage ==
  [requireAuth |-> Null, tree |-> <<"AuthGuard", "DashboardLayout", "SettingsContent">>]

LoginPage ==
  [requireAuth |-> Some(FALSE), tree |-> <<"AuthGuard", "LoginForm">>]

PageOf(route) ==
  CASE route = ChatRoute -> ChatPage
    [] route = AgentsRoute -> AIAgentsPage
    [] route = SettingsRoute -> SettingsPage
    [] route = LoginRoute -> LoginPage

\* The default of the destructured prop: requireAuth = true.
RequireAuthProp(prop) == IF prop = Null THEN TRUE ELSE prop[1]

(* ---------------------------------------------------------------------- *)
(* AuthGuard                                                               *)
(* ---------------------------------------------------------------------- *)

CheckAuthTruthy(storage) ==
  getItem(storage, AuthKey) \notin {Null, Some("")}

\* checkAuth: the value handed to setIsAuthenticated.
CheckAuth(storage) == getItem(storage, AuthKey) = Some("true")

RedirectEffectEager(isAuth, reqAuth) ==
  IF reqAuth /\ isAuth # Some(TRUE) THEN <<LoginRoute>>
  ELSE IF ~reqAuth /\ isAuth = Some(TRUE) THEN <<ChatRoute>>
  ELSE <<>>

RedirectEffectHome(isAuth, reqAuth) ==
  IF isAuth = Null THEN <<>>
  ELSE IF reqAuth /\ ~isAuth[1] THEN <<ChatRoute>>
  ELSE IF ~reqAuth /\ isAuth[1] THEN <<ChatRoute>>
  ELSE <<>>

RedirectEffectSwapped(isAuth, reqAuth) ==
  IF isAuth = Null THEN <<>>
  ELSE IF reqAuth /\ ~isAuth[1] THEN <<SettingsRoute>>
  ELSE IF ~reqAuth /\ isAuth[1] THEN <<ChatRoute>>
  ELSE <<>>

RedirectEffectOneWay(isAuth, reqAuth) ==
  IF isAuth = Null THEN <<>>
  ELSE IF reqAuth /\ ~isAuth[1] THEN <<LoginRoute>>
  ELSE <<>>

RedirectEffectAlways(isAuth, reqAuth) ==
  IF isAuth = Null THEN <<>>
  ELSE IF reqAuth THEN <<LoginRoute>>
  ELSE <<ChatRoute>>

\* The second effect: the router.push calls it makes, in order.
RedirectEffect(isAuth, reqAuth) ==
  IF isAuth = Null THEN <<>>
  ELSE IF reqAuth /\ ~isAuth[1] THEN <<LoginRoute>>
  ELSE IF ~reqAuth /\ isAuth[1] THEN <<ChatRoute>>
  ELSE <<>>

DepsChangedAlways(prev, next) == TRUE

\* React re-runs an effect when some dependency differs from the last render.
DepsChanged(prev, next) == prev # next

EffectsAfterRenderRecheck(prev, next) ==
  {"checkAuth"} \cup (IF DepsChanged(prev, next) THEN {"redirect"} ELSE {})

\* The effects a re-render schedules: checkAuth has the dependency list [] and
\* runs after the first render only, the redirect effect runs when
\* [isAuthenticated, requireAuth, router] changed.
EffectsAfterRender(prev, next) ==
  IF DepsChanged(prev, next) THEN {"redirect"} ELSE {}

GuardOutputNoSpinner(isAuth, reqAuth) ==
  IF isAuth = Null THEN "children"
  ELSE IF reqAuth /\ ~isAuth[1] THEN "null"
  ELSE IF ~reqAuth /\ isAuth[1] THEN "null"
  ELSE "children"

GuardOutputNoPublicCheck(isAuth, reqAuth) ==
  IF isAuth = Null THEN "spinner"
  ELSE IF reqAuth /\ ~isAuth[1] THEN "null"
  ELSE "children"

GuardOutputSpinnerOnMismatch(isAuth, reqAuth) ==
  IF isAuth = Null THEN "spinner"
  ELSE IF reqAuth /\ ~isAuth[1] THEN "spinner"
  ELSE IF ~reqAuth /\ isAuth[1] THEN "spinner"
  ELSE "children"

\* What the component function returns.
GuardOutput(isAuth, reqAuth) ==
  IF isAuth = Null THEN "spinner"
  ELSE IF reqAuth /\ ~isAuth[1] THEN "null"
  ELSE IF ~reqAuth /\ isAuth[1] THEN "null"
  ELSE "children"

\* The components in the document once the gate of a page returned `out`:
\* everything around the gate, the gate, and its children if it rendered them.
GateIndex(tree) == CHOOSE i \in 1..Len(tree) : tree[i] = "AuthGuard"

Mounted(tree, out) ==
  IF out = "children" THEN tree ELSE SubSeq(tree, 1, GateIndex(tree))

(* ---------------------------------------------------------------------- *)
(* DashboardLayout                                                         *)
(* ---------------------------------------------------------------------- *)

navigation ==
  << [name |-> "Chat", href |-> ChatRoute],
     [name |-> "AI Agents", href |-> AgentsRoute],
     [name |-> "Settings", href |-> SettingsRoute] >>

IsPrefix(p, q) == Len(p) <= Len(q) /\ SubSeq(q, 1, Len(p)) = p

\* isActive of the overlay list.
IsActiveMobile(path, href) == path = href

IsActiveDesktopStartsWith(path, href) == IsPrefix(href, path)

\* isActive of the desktop rail.
IsActiveDesktop(path, href) == path = href

\* The names of the entries each list paints as active.
NavHighlights(path) ==
  [mobile |-> { navigation[i].name :
                  i \in { j \in 1..Len(navigation) :
                            IsActiveMobile(path, navigation[j].href) } },
   desktop |-> { navigation[i].name :
                   i \in { j \in 1..Len(navigation) :
                             IsActiveDesktop(path, navigation[j].href) } }]

InitialNavigationStateKept(last) ==
  IF last = Null
  THEN [sidebarOpen |-> FALSE, sidebarExpanded |-> FALSE]
  ELSE last[1]

\* useState(false), twice: the state a layout instance starts with, whatever
\* state the instance before it ended with.
InitialNavigationState(last) ==
  [sidebarOpen |-> FALSE, sidebarExpanded |-> FALSE]

UserMenuItems == {"Profile", "Settings", "Log out"}

MenuItemEffectLogout(item, storage) ==
  IF item = "Log out"
  THEN [k \in (DOMAIN storage) \ {AuthKey} |-> storage[k]]
  ELSE storage

\* What selecting an item of the user menu does to the storage: no item has
\* a handler.
MenuItemEffect(item, storage) == storage

(* ---------------------------------------------------------------------- *)
(* Database                                                                *)
(* ---------------------------------------------------------------------- *)

\* auth.uid() of the callers that are signed in.
Users == {"u1", "u2"}

ServiceRole == [role |-> "service_role", uid |-> Null]

Anon == [role |-> "anon", uid |-> Null]

Authenticated(u) == [role |-> "authenticated", uid |-> Some(u)]

\* Who runs a statement: auth.role() and auth.uid() (NULL unless signed in).
Callers == { Authenticated(u) : u \in Users } \cup {ServiceRole, Anon}

\* SQL's = under a policy: a comparison with NULL is not true.
SqlEq(a, b) == a # Null /\ b # Null /\ a = b

\* Object names, as their segments: one in the folder of u1, one at the
\* root of the bucket.
ObjectNames == {<<"u1", "a">>, <<"a">>}

\* storage.foldername(name): every segment but the last.
FolderName(name) == SubSeq(name, 1, Len(name) - 1)

\* (storage.foldername(name))[1], NULL when the name has no folder.
FirstFolder(name) ==
  IF FolderName(name) = <<>> THEN Null ELSE Some(FolderName(name)[1])

ProcessingMethods == {"basic", "advanced_ai_pipeline"}

\* Rows of documents: the columns the policies, the trigger and the view
\* look at.  file_path is free text; it is written as an object name.
DocumentRows ==
  [user_id : Users, file_path : ObjectNames,
   processing_method : ProcessingMethods]

SessionIds == {"s1"}

SessionRows == [id : SessionIds, user_id : Users]

MessageRows == [session_id : SessionIds, user_id : Users]

\* An object of a bucket the migrations do not create.
OtherBucketObject == [bucket_id |-> "avatars", name |-> <<"u1", "a">>]

ObjectRows ==
  [bucket_id : {"documents"}, name : ObjectNames] \cup {OtherBucketObject}

\* GRANT statements of the migrations; storage.objects is granted by the
\* platform to every API role.
Grants(relation) ==
  IF relation = "objects"
  THEN {"anon", "authenticated", "service_role"}
  ELSE {"authenticated", "service_role"}

Granted(c, relation) == c.role \in Grants(relation)

\* The two permissive FOR ALL policies of documents, OR-ed.  A FOR ALL
\* policy with USING only uses the same expression as its WITH CHECK.
DocumentsPolicy(c, row) ==
  SqlEq(c.uid, Some(row.user_id)) \/ c.role = "service_role"

ChatSessionsPolicy(c, row) ==
  SqlEq(c.uid, Some(row.user_id)) \/ c.role = "service_role"

ChatMessagesPolicy(c, row) ==
  SqlEq(c.uid, Some(row.user_id)) \/ c.role = "service_role"

\* The policies of storage.objects that apply to command cmd, OR-ed.
ObjectsPolicy(c, cmd, obj) ==
  \/ /\ cmd \in {"INSERT", "SELECT", "DELETE"}
     /\ obj.bucket_id = "documents"
     /\ SqlEq(c.uid, FirstFolder(obj.name))
  \/ obj.bucket_id = "documents" /\ c.role = "service_role"

\* Objects the cleanup trigger removes for the deleted row old.  The
\* function is not SECURITY DEFINER: its DELETE runs as the caller of the
\* outer statement and sees only what that caller may select and delete.
delete_storage_object_on_document_delete(c, old, objs) ==
  { o \in objs : /\ o.bucket_id = "documents"
                 /\ o.name = old.file_path
                 /\ Granted(c, "objects")
                 /\ ObjectsPolicy(c, "SELECT", o)
                 /\ ObjectsPolicy(c, "DELETE", o) }

\* Messages removed with a session: ON DELETE CASCADE is carried out by
\* the system and is not subject to row-level security.
CascadeMessages(session, msgs) ==
  { msg \in msgs : msg.session_id = session.id }

\* WHERE clause of the view advanced_processed_documents (its status and
\* consolidated_markdown conditions are taken to hold of advanced rows).
ViewFilter(row) == row.processing_method = "advanced_ai_pipeline"

\* Select list of the view: file_path is not part of it.
ViewRow(row) ==
  [user_id |-> row.user_id, processing_method |-> row.processing_method]

\* The view is not security_invoker: it reads documents as its owner, who
\* owns the table too, and row-level security is not applied to an owner.
advanced_processed_documents(docs) ==
  { ViewRow(row) : row \in { r \in docs : ViewFilter(r) } }

\* No statement has run yet.
NoOp ==
  [role |-> "none", uid |-> Null, op |-> "none", relation |-> "none",
   rows |-> {}]

(* ---------------------------------------------------------------------- *)
(* Chat page                                                               *)
(* ---------------------------------------------------------------------- *)

\* The message the list starts with.  Ids and timestamps of messages are
\* not kept; the texts are shortened.
Greeting ==
  [type |-> "assistant", content |-> "Hello!", confidence |-> Some(95)]

\* The canned replies of the timer callback.
responses ==
  << [content |-> "diabetes", confidence |-> 92],
     [content |-> "hypertension", confidence |-> 88],
     [content |-> "interactions", confidence |-> 94] >>

\* Texts the input field may hold.
Inputs == {"", "  ", "hi", " hi "}

\* String.prototype.trim on those texts.
trim(text) ==
  CASE text = "  " -> ""
    [] text = " hi " -> "hi"
    [] OTHER -> text

UserMessage(text) == [type |-> "user", content |-> text, confidence |-> Null]

AssistantMessageUnpaired(response) ==
  [type |-> "assistant", content |-> response.content,
   confidence |-> Some(responses[1].confidence)]

AssistantMessage(response) ==
  [type |-> "assistant", content |-> response.content,
   confidence |-> Some(response.confidence)]

SendAcceptedNoTrim(text, loading) == ~(text = "" \/ loading)

\* handleSend goes past its first line.
SendAccepted(text, loading) == ~(trim(text) = "" \/ loading)

\* disabled of the Send button.
ButtonDisabled(text, loading) == trim(text) = "" \/ loading

\* disabled of the input field.
InputDisabled(loading) == loading

\* handleKeyPress calls handleSend.
KeySends(key, shiftKey) == key = "Enter" /\ ~shiftKey

Keys == {"Enter", "a"}

\* No Send click and no key press has been handled by this instance.
NoChatEvent == [by |-> "none", accepted |-> FALSE]

(* ---------------------------------------------------------------------- *)
(* Note generator and upload dialog: initial values                        *)
(* ---------------------------------------------------------------------- *)

\* The note the list starts with.  A text is the sequence of its parts;
\* the empty text is the empty sequence.
\* No operation of the upload dialog has run yet.
NoUploadEvent == [op |-> "none", id |-> 0]

InitialNote ==
  [id |-> 1, type |-> "application",
   title |-> <<"Mortgage Application Summary - John Smith">>,
   content |-> <<"BORROWER INFORMATION">>, status |-> "completed"]

(* ---------------------------------------------------------------------- *)
(* State                                                                   *)
(* ---------------------------------------------------------------------- *)

VARIABLES
  localStorage,     \* the origin's storage
  pathname,         \* route of the page shown
  requireAuth,      \* prop of the gate instance of that page
  isAuthenticated,  \* its state as of its last render: Null, Some(bool)
  queued,           \* state update waiting for the next render
  hasRead,          \* checkAuth has run in this instance
  authState,        \* what its getItem returned
  rendered,         \* output of its last render: spinner, null, children
  mounted,          \* components in the document, outermost first
  deps,             \* dependencies of the redirect effect at the last render
  pendingEffects,   \* effects of the last commit not yet flushed
  pushed,           \* router.push calls made by this instance
  nav,              \* navigation started and not yet completed
  renders,          \* parent-caused re-renders of this instance
  via,              \* how the page was reached: visit, link or redirect
  redirects,        \* gate redirects since the last visit
  flagChanged,      \* the stored flag was changed since the last visit
  reads,            \* getItem calls made by this instance
  mounts,           \* mounts of this route in succession
  sidebarOpen,      \* DashboardLayout state: the mobile overlay is open
  sidebarExpanded,  \* DashboardLayout state: the desktop rail is expanded
  lastPointer,      \* last pointer event on the rail of this layout instance
  discarded,        \* state the last unmounted layout instance ended with
  lastEvent,        \* last user event handled by this layout instance
  activeNav,        \* entries highlighted by the last render of the layout
  linkNav,          \* navigation started by a Link and not yet completed
  documents,        \* table documents
  chat_sessions,    \* table chat_sessions
  chat_messages,    \* table chat_messages
  objects,          \* table storage.objects
  lastOp,           \* the last statement run against the database
  messages,         \* ChatPage state: the message list
  input,            \* ChatPage state: text of the input field
  isLoading,        \* ChatPage state: a reply is awaited
  replyTimers,      \* reply timers of this chat page that have not fired
  orphanTimers,     \* reply timers of chat pages that were unmounted
  chatEvent,        \* last Send click or key press handled by the chat page
  selectedDocument, \* NoteGenerator state: document chosen
  noteType,         \* NoteGenerator state: note type chosen
  generatedNotes,   \* NoteGenerator state: the notes, newest first
  isGenerating,     \* NoteGenerator state: a generation is in progress
  noteTimers,       \* generation timers that have not fired, with their closures
  clock,            \* Date.now(), in units of one generation delay
  noteEvent,        \* last click on Generate Notes
  files,            \* DocumentUpload state: the upload list
  intervals,        \* progress intervals started, with their ticks
  uploadEvent       \* last event handled by the upload dialog

gateVars ==
  <<pathname, requireAuth, isAuthenticated, queued, hasRead, authState,
    rendered, mounted, deps, pendingEffects, pushed, renders, reads, mounts>>

browserVars == <<localStorage, nav, via, redirects, flagChanged, linkNav>>

layoutVars ==
  <<sidebarOpen, sidebarExpanded, lastPointer, discarded, lastEvent, activeNav>>

dbVars == <<documents, chat_sessions, chat_messages, objects, lastOp>>

chatVars ==
  <<messages, input, isLoading, replyTimers, orphanTimers, chatEvent>>

notesVars ==
  <<selectedDocument, noteType, generatedNotes, isGenerating, noteTimers,
    clock, noteEvent>>

uploadVars == <<files, intervals, uploadEvent>>

widgetVars == <<notesVars, uploadVars>>

vars == <<gateVars, browserVars, layoutVars, dbVars, chatVars, widgetVars>>

Min(a, b) == IF a < b THEN a ELSE b

LayoutIn(tree) == \E i \in 1..Len(tree) : tree[i] = "DashboardLayout"

\* The layout instance of the page, if any, goes from the document `before`
\* to the document `after`.  A layout that enters the document is a new
\* instance: its state is the initial one.  `replaced`: the page itself is a
\* new one, so a layout in `after` is never the one in `before`.
LayoutStep(before, after, replaced, path) ==
  LET leaves == LayoutIn(before) /\ (replaced \/ ~LayoutIn(after))
      enters == LayoutIn(after) /\ (replaced \/ ~LayoutIn(before))
      gone == IF leaves
              THEN Some([sidebarOpen |-> sidebarOpen,
                         sidebarExpanded |-> sidebarExpanded])
              ELSE discarded
      fresh == InitialNavigationState(gone)
  IN /\ discarded' = gone
     /\ sidebarOpen' =
          IF enters THEN fresh.sidebarOpen
          ELSE IF LayoutIn(after) THEN sidebarOpen ELSE FALSE
     /\ sidebarExpanded' =
          IF enters THEN fresh.sidebarExpanded
          ELSE IF LayoutIn(after) THEN sidebarExpanded ELSE FALSE
     /\ lastPointer' =
          IF LayoutIn(after) /\ ~enters THEN lastPointer ELSE "none"
     /\ lastEvent' = IF LayoutIn(after) /\ ~enters THEN lastEvent ELSE "none"
     /\ activeNav' = IF LayoutIn(after) THEN Some(NavHighlights(path)) ELSE Null

\* A chat page starts with the greeting, an empty input and no reply
\* awaited.  While another page is shown the variables keep these values.
ChatInitial ==
  /\ messages = <<Greeting>>
  /\ input = ""
  /\ isLoading = FALSE
  /\ replyTimers = 0
  /\ chatEvent = NoChatEvent

\* The page shown is replaced: the state of a chat page is dropped with it
\* and a chat page that is mounted starts afresh.  Nothing clears the reply
\* timer of the page that goes.
ChatPageReplaced ==
  /\ orphanTimers + replyTimers <= MaxOrphans
  /\ messages' = <<Greeting>>
  /\ input' = ""
  /\ isLoading' = FALSE
  /\ replyTimers' = 0
  /\ chatEvent' = NoChatEvent
  /\ orphanTimers' = orphanTimers + replyTimers

\* The note generator and the upload dialog as they are constructed.
WidgetsInitial ==
  /\ selectedDocument = ""
  /\ noteType = ""
  /\ generatedNotes = <<InitialNote>>
  /\ isGenerating = FALSE
  /\ noteTimers = {}
  /\ clock = 2
  /\ noteEvent = "none"
  /\ files = <<>>
  /\ intervals = <<>>
  /\ uploadEvent = NoUploadEvent

\* A page is loaded: its gate is constructed and rendered for the first time,
\* both effects are scheduled.
MountPage(route) ==
  LET page == PageOf(route)
      req == RequireAuthProp(page.requireAuth)
      out == GuardOutput(Null, req)
  IN /\ pathname' = route
     /\ requireAuth' = req
     /\ isAuthenticated' = Null
     /\ queued' = Null
     /\ hasRead' = FALSE
     /\ authState' = Null
     /\ rendered' = out
     /\ mounted' = Mounted(page.tree, out)
     /\ deps' = <<Null, req>>
     /\ pendingEffects' = {"checkAuth", "redirect"}
     /\ pushed' = <<>>
     /\ renders' = 0
     /\ reads' = 0
     /\ mounts' = IF route = pathname THEN Min(mounts + 1, MountCap) ELSE 1
     /\ LayoutStep(mounted, Mounted(page.tree, out), TRUE, route)
     /\ ChatPageReplaced

\* No row in any table.
DbEmpty ==
  /\ documents = {}
  /\ chat_sessions = {}
  /\ chat_messages = {}
  /\ objects = {}
  /\ lastOp = NoOp

Init ==
  /\ localStorage \in Storages
  /\ pathname \in Routes
  /\ requireAuth = RequireAuthProp(PageOf(pathname).requireAuth)
  /\ isAuthenticated = Null
  /\ queued = Null
  /\ hasRead = FALSE
  /\ authState = Null
  /\ rendered = GuardOutput(Null, requireAuth)
  /\ mounted = Mounted(PageOf(pathname).tree, rendered)
  /\ deps = <<Null, requireAuth>>
  /\ pendingEffects = {"checkAuth", "redirect"}
  /\ pushed = <<>>
  /\ nav = Null
  /\ renders = 0
  /\ via = "visit"
  /\ redirects = 0
  /\ flagChanged = FALSE
  /\ reads = 0
  /\ mounts = 1
  /\ sidebarOpen = InitialNavigationState(Null).sidebarOpen
  /\ sidebarExpanded = InitialNavigationState(Null).sidebarExpanded
  /\ lastPointer = "none"
  /\ discarded = Null
  /\ lastEvent = "none"
  /\ activeNav = IF LayoutIn(mounted) THEN Some(NavHighlights(pathname)) ELSE Null
  /\ linkNav = Null
  /\ DbEmpty
  /\ ChatInitial
  /\ orphanTimers = 0
  /\ WidgetsInitial

(* ---------------------------------------------------------------------- *)
(* Actions of the gate and the browser                                     *)
(* ---------------------------------------------------------------------- *)

\* No React work of the instance is outstanding.
Settled == pendingEffects = {} /\ queued = Null

\* The user opens a route in the tab (address bar, reload, external link).
Visit(route) ==
  /\ MountPage(route)
  /\ nav' = Null
  /\ linkNav' = Null
  /\ via' = "visit"
  /\ redirects' = 0
  /\ flagChanged' = FALSE
  /\ UNCHANGED <<localStorage, dbVars, widgetVars>>

\* React flushes the passive effects of the last commit, in declaration
\* order: checkAuth reads the flag and queues the state update, the redirect
\* effect sees the state of the render it belongs to.
FlushEffects ==
  /\ pendingEffects # {}
  /\ LET calls == IF "redirect" \in pendingEffects
                  THEN RedirectEffect(isAuthenticated, requireAuth)
                  ELSE <<>>
     IN /\ IF "checkAuth" \in pendingEffects
           THEN /\ authState' = getItem(localStorage, AuthKey)
                /\ hasRead' = TRUE
                /\ reads' = reads + 1
                /\ queued' = Some(CheckAuth(localStorage))
           ELSE UNCHANGED <<authState, hasRead, reads, queued>>
        /\ pushed' = pushed \o calls
        /\ nav' = IF calls = <<>> THEN nav ELSE Some(calls[Len(calls)])
        /\ redirects' = Min(redirects + Len(calls), RedirectCap)
  /\ pendingEffects' = {}
  /\ UNCHANGED <<localStorage, pathname, requireAuth, isAuthenticated,
                 rendered, mounted, deps, renders, mounts, via, flagChanged,
                 linkNav, layoutVars, dbVars, chatVars, widgetVars>>

\* One render of the instance: the queued update becomes the state, the
\* output is committed, the effects whose dependencies changed are
\* scheduled.  The layout, when it is among the children, renders with it.
Render ==
  LET state == IF queued = Null THEN isAuthenticated ELSE queued
      out == GuardOutput(state, requireAuth)
      newDeps == <<state, requireAuth>>
      after == Mounted(PageOf(pathname).tree, out)
  IN /\ isAuthenticated' = state
     /\ queued' = Null
     /\ rendered' = out
     /\ mounted' = after
     /\ deps' = newDeps
     /\ pendingEffects' = EffectsAfterRender(deps, newDeps)
     /\ LayoutStep(mounted, after, FALSE, pathname)
     /\ UNCHANGED <<pathname, requireAuth, hasRead, authState, pushed,
                    reads, mounts, browserVars, dbVars, chatVars, widgetVars>>

\* The render React schedules for the update queued by setIsAuthenticated.
RenderUpdate ==
  /\ pendingEffects = {}
  /\ queued # Null
  /\ Render
  /\ UNCHANGED renders

\* The page component renders again (its own state changed) and the gate
\* with it.
ParentRerender ==
  /\ pendingEffects = {}
  /\ renders < MaxRerenders
  /\ Render
  /\ renders' = renders + 1

\* The router completes the navigation started by router.push: the page
\* shown is replaced by the target page.
Navigate ==
  /\ nav # Null
  /\ MountPage(nav[1])
  /\ nav' = Null
  /\ linkNav' = Null
  /\ via' = "redirect"
  /\ UNCHANGED <<localStorage, redirects, flagChanged, dbVars, widgetVars>>

\* The login form is submitted: the flag is stored.
LoginSubmit ==
  /\ pathname = LoginRoute
  /\ \E i \in 1..Len(mounted) : mounted[i] = "LoginForm"
  /\ localStorage' = setItem(localStorage, AuthKey, "true")
  /\ flagChanged' = (flagChanged \/ getItem(localStorage, AuthKey) # Some("true"))
  /\ UNCHANGED <<gateVars, nav, via, redirects, linkNav, layoutVars, dbVars, chatVars, widgetVars>>

\* The login form of another tab of the same origin is submitted.
OtherTabLogin ==
  /\ getItem(localStorage, AuthKey) # Some("true")
  /\ localStorage' = setItem(localStorage, AuthKey, "true")
  /\ flagChanged' = TRUE
  /\ UNCHANGED <<gateVars, nav, via, redirects, linkNav, layoutVars, dbVars, chatVars, widgetVars>>

(* ---------------------------------------------------------------------- *)
(* Actions of the layout                                                   *)
(* ---------------------------------------------------------------------- *)

NavItems == { navigation[i] : i \in 1..Len(navigation) }

\* The menu button of the top bar: setSidebarOpen(true).
MenuButtonClick ==
  /\ LayoutIn(mounted)
  /\ sidebarOpen' = TRUE
  /\ lastEvent' = "menu button"
  /\ UNCHANGED <<gateVars, browserVars, sidebarExpanded, lastPointer,
                 discarded, activeNav, dbVars, chatVars, widgetVars>>

\* The overlay is dismissed (Escape, click outside, close button): the Sheet
\* calls onOpenChange(false), which is setSidebarOpen.
DismissOverlay ==
  /\ LayoutIn(mounted)
  /\ sidebarOpen
  /\ sidebarOpen' = FALSE
  /\ lastEvent' = "dismiss"
  /\ UNCHANGED <<gateVars, browserVars, sidebarExpanded, lastPointer,
                 discarded, activeNav, dbVars, chatVars, widgetVars>>

\* A Link starts a navigation unless it leads to the page shown.
LinkTo(href) == IF href = pathname THEN linkNav ELSE Some(href)

\* A navigation entry of the overlay is clicked: setSidebarOpen(false), and
\* the Link navigates.
MobileNavClick(item) ==
  /\ LayoutIn(mounted)
  /\ sidebarOpen
  /\ sidebarOpen' = FALSE
  /\ lastEvent' = "overlay nav"
  /\ linkNav' = LinkTo(item.href)
  /\ UNCHANGED <<gateVars, localStorage, nav, via, redirects, flagChanged,
                 sidebarExpanded, lastPointer, discarded, activeNav, dbVars, chatVars, widgetVars>>

RailNavClickCloses(item) ==
  /\ LayoutIn(mounted)
  /\ sidebarOpen' = FALSE
  /\ lastEvent' = "rail nav"
  /\ linkNav' = LinkTo(item.href)
  /\ UNCHANGED <<gateVars, localStorage, nav, via, redirects, flagChanged,
                 sidebarExpanded, lastPointer, discarded, activeNav, dbVars, chatVars, widgetVars>>

\* A navigation entry of the desktop rail is clicked: the Link has no click
\* handler of its own, it only navigates.
RailNavClick(item) ==
  /\ LayoutIn(mounted)
  /\ lastEvent' = "rail nav"
  /\ linkNav' = LinkTo(item.href)
  /\ UNCHANGED <<gateVars, localStorage, nav, via, redirects, flagChanged,
                 sidebarOpen, sidebarExpanded, lastPointer, discarded,
                 activeNav, dbVars, chatVars, widgetVars>>

PointerEnterToggles ==
  /\ LayoutIn(mounted)
  /\ sidebarExpanded' = ~sidebarExpanded
  /\ lastPointer' = "enter"
  /\ lastEvent' = "pointer enter"
  /\ UNCHANGED <<gateVars, browserVars, sidebarOpen, discarded, activeNav,
                 dbVars, chatVars, widgetVars>>

\* The pointer enters the desktop rail: setSidebarExpanded(true).
PointerEnter ==
  /\ LayoutIn(mounted)
  /\ sidebarExpanded' = TRUE
  /\ lastPointer' = "enter"
  /\ lastEvent' = "pointer enter"
  /\ UNCHANGED <<gateVars, browserVars, sidebarOpen, discarded, activeNav,
                 dbVars, chatVars, widgetVars>>

\* The pointer leaves the desktop rail: setSidebarExpanded(false).
PointerLeave ==
  /\ LayoutIn(mounted)
  /\ sidebarExpanded' = FALSE
  /\ lastPointer' = "leave"
  /\ lastEvent' = "pointer leave"
  /\ UNCHANGED <<gateVars, browserVars, sidebarOpen, discarded, activeNav,
                 dbVars, chatVars, widgetVars>>

\* An item of the user menu is clicked: the item's handler runs.
SelectMenuItem(item) ==
  /\ LayoutIn(mounted)
  /\ lastEvent' = item
  /\ localStorage' = MenuItemEffect(item, localStorage)
  /\ flagChanged' =
       (flagChanged \/ getItem(localStorage', AuthKey) # getItem(localStorage, AuthKey))
  /\ UNCHANGED <<gateVars, nav, via, redirects, linkNav, sidebarOpen,
                 sidebarExpanded, lastPointer, discarded, activeNav, dbVars, chatVars, widgetVars>>

\* The router completes the navigation started by a Link: the page shown is
\* replaced by the page of the href.
LinkNavigate ==
  /\ linkNav # Null
  /\ MountPage(linkNav[1])
  /\ nav' = Null
  /\ linkNav' = Null
  /\ via' = "link"
  /\ redirects' = 0
  /\ flagChanged' = FALSE
  /\ UNCHANGED <<localStorage, dbVars, widgetVars>>

LayoutNext ==
  \/ MenuButtonClick
  \/ DismissOverlay
  \/ \E item \in NavItems : MobileNavClick(item)
  \/ \E item \in NavItems : RailNavClick(item)
  \/ PointerEnter
  \/ PointerLeave
  \/ \E item \in UserMenuItems : SelectMenuItem(item)
  \/ LinkNavigate

Next ==
  \/ \E route \in Routes : Visit(route)
  \/ FlushEffects
  \/ RenderUpdate
  \/ ParentRerender
  \/ Navigate
  \/ LoginSubmit
  \/ OtherTabLogin
  \/ LayoutNext

Spec == Init /\ [][Next]_vars

\* The running tab: the page is not unloaded while React work of its gate is
\* outstanding, and React performs the work it has scheduled.
VisitSettled(route) == Settled /\ Visit(route)

LiveNext ==
  \/ \E route \in Routes : VisitSettled(route)
  \/ FlushEffects
  \/ RenderUpdate
  \/ ParentRerender
  \/ Navigate
  \/ LoginSubmit
  \/ OtherTabLogin
  \/ LayoutNext

LiveSpec ==
  Init /\ [][LiveNext]_vars /\ WF_vars(FlushEffects) /\ WF_vars(RenderUpdate)

\* The storage is edited from outside the program (developer tools, a
\* script): the flag is removed or set to any value.
StorageEdit(storage) ==
  /\ storage # localStorage
  /\ localStorage' = storage
  /\ flagChanged' = TRUE
  /\ UNCHANGED <<gateVars, nav, via, redirects, linkNav, layoutVars, dbVars, chatVars, widgetVars>>

EnvNext ==
  \/ Next
  \/ \E storage \in Storages : StorageEdit(storage)

EnvSpec == Init /\ [][EnvNext]_vars

(* ---------------------------------------------------------------------- *)
(* The highlight comparison on arbitrary paths                             *)
(* ---------------------------------------------------------------------- *)

PathSegments == {"dashboard", "chat", "ai-agents", "settings", "login", "1"}

Paths == UNION { [1..n -> PathSegments] : n \in 0..MaxPathLen }

\* The layout is about to render around some page of an authenticated
\* session, at any path usePathname may return.
HighlightInit ==
  /\ localStorage = [k \in {AuthKey} |-> "true"]
  /\ pathname \in Paths
  /\ requireAuth = TRUE
  /\ isAuthenticated = Some(TRUE)
  /\ queued = Null
  /\ hasRead = TRUE
  /\ authState = Some("true")
  /\ rendered = "children"
  /\ mounted = <<"AuthGuard", "DashboardLayout", "Content">>
  /\ deps = <<Some(TRUE), TRUE>>
  /\ pendingEffects = {}
  /\ pushed = <<>>
  /\ nav = Null
  /\ renders = 0
  /\ via = "visit"
  /\ redirects = 0
  /\ flagChanged = FALSE
  /\ reads = 1
  /\ mounts = 1
  /\ sidebarOpen = FALSE
  /\ sidebarExpanded = FALSE
  /\ lastPointer = "none"
  /\ discarded = Null
  /\ lastEvent = "none"
  /\ activeNav = Null
  /\ linkNav = Null
  /\ DbEmpty
  /\ ChatInitial
  /\ orphanTimers = 0
  /\ WidgetsInitial

\* The layout renders both navigation lists for the current path.
LayoutRender ==
  /\ LayoutIn(mounted)
  /\ activeNav' = Some(NavHighlights(pathname))
  /\ UNCHANGED <<gateVars, browserVars, sidebarOpen, sidebarExpanded,
                 lastPointer, discarded, lastEvent, dbVars, chatVars, widgetVars>>

HighlightNext == LayoutRender

HighlightSpec == HighlightInit /\ [][HighlightNext]_vars

(* ---------------------------------------------------------------------- *)
(* Statements run against the database                                     *)
(* ---------------------------------------------------------------------- *)

frontVars == <<gateVars, browserVars, layoutVars, chatVars, widgetVars>>

\* The database before any statement of the API roles: no row, except an
\* object of another bucket.  The front end shows the chat page
\* of a signed-in session and does not move.
DbInit ==
  /\ localStorage = [k \in {AuthKey} |-> "true"]
  /\ pathname = ChatRoute
  /\ requireAuth = TRUE
  /\ isAuthenticated = Some(TRUE)
  /\ queued = Null
  /\ hasRead = TRUE
  /\ authState = Some("true")
  /\ rendered = "children"
  /\ mounted = <<"AuthGuard", "DashboardLayout", "Content">>
  /\ deps = <<Some(TRUE), TRUE>>
  /\ pendingEffects = {}
  /\ pushed = <<>>
  /\ nav = Null
  /\ renders = 0
  /\ via = "visit"
  /\ redirects = 0
  /\ flagChanged = FALSE
  /\ reads = 1
  /\ mounts = 1
  /\ sidebarOpen = FALSE
  /\ sidebarExpanded = FALSE
  /\ lastPointer = "none"
  /\ discarded = Null
  /\ lastEvent = "none"
  /\ activeNav = Some(NavHighlights(ChatRoute))
  /\ linkNav = Null
  /\ documents = {}
  /\ chat_sessions = {}
  /\ chat_messages = {}
  /\ objects = {OtherBucketObject}
  /\ lastOp = NoOp
  /\ ChatInitial
  /\ orphanTimers = 0
  /\ WidgetsInitial

\* Statement op on relation by caller c has run and returned rows.
Ran(c, op, relation, rows) ==
  /\ lastOp' = [role |-> c.role, uid |-> c.uid, op |-> op,
                relation |-> relation, rows |-> rows]
  /\ UNCHANGED frontVars

\* SELECT * FROM documents
SelectDocuments(c) ==
  /\ Ran(c, "SELECT", "documents",
         IF Granted(c, "documents")
         THEN { row \in documents : DocumentsPolicy(c, row) } ELSE {})
  /\ UNCHANGED <<documents, chat_sessions, chat_messages, objects>>

\* SELECT * FROM chat_sessions
SelectSessions(c) ==
  /\ Ran(c, "SELECT", "chat_sessions",
         IF Granted(c, "chat_sessions")
         THEN { row \in chat_sessions : ChatSessionsPolicy(c, row) } ELSE {})
  /\ UNCHANGED <<documents, chat_sessions, chat_messages, objects>>

\* SELECT * FROM chat_messages
SelectMessages(c) ==
  /\ Ran(c, "SELECT", "chat_messages",
         IF Granted(c, "chat_messages")
         THEN { row \in chat_messages : ChatMessagesPolicy(c, row) } ELSE {})
  /\ UNCHANGED <<documents, chat_sessions, chat_messages, objects>>

\* SELECT * FROM storage.objects
SelectObjects(c) ==
  /\ Ran(c, "SELECT", "objects",
         IF Granted(c, "objects")
         THEN { o \in objects : ObjectsPolicy(c, "SELECT", o) } ELSE {})
  /\ UNCHANGED <<documents, chat_sessions, chat_messages, objects>>

\* SELECT * FROM advanced_processed_documents
SelectView(c) ==
  /\ Ran(c, "SELECT", "advanced_processed_documents",
         IF Granted(c, "advanced_processed_documents")
         THEN advanced_processed_documents(documents) ELSE {})
  /\ UNCHANGED <<documents, chat_sessions, chat_messages, objects>>

\* What one UPDATE of the model makes of a row: it sets user_id or
\* processing_method.
DocumentUpdates(row) ==
  { [row EXCEPT !.user_id = u] : u \in Users } \cup
  { [row EXCEPT !.processing_method = m] : m \in ProcessingMethods }

\* INSERT INTO documents: the new row must pass WITH CHECK, or the
\* statement fails and changes nothing.
InsertDocument(c, row) ==
  /\ row \notin documents
  /\ Cardinality(documents) < MaxDocs
  /\ documents' = IF Granted(c, "documents") /\ DocumentsPolicy(c, row)
                  THEN documents \cup {row} ELSE documents
  /\ Ran(c, "INSERT", "documents", {})
  /\ UNCHANGED <<chat_sessions, chat_messages, objects>>

\* UPDATE documents SET ... WHERE <row>: the row must be visible under
\* USING and the new row must pass WITH CHECK.
UpdateDocument(c, row, new) ==
  /\ row \in documents
  /\ new \notin documents
  /\ documents' = IF /\ Granted(c, "documents")
                     /\ DocumentsPolicy(c, row)
                     /\ DocumentsPolicy(c, new)
                  THEN (documents \ {row}) \cup {new} ELSE documents
  /\ Ran(c, "UPDATE", "documents", {})
  /\ UNCHANGED <<chat_sessions, chat_messages, objects>>

\* DELETE FROM documents WHERE <row>; the AFTER DELETE trigger runs for the
\* row deleted.
DeleteDocument(c, row) ==
  /\ row \in documents
  /\ IF Granted(c, "documents") /\ DocumentsPolicy(c, row)
     THEN /\ documents' = documents \ {row}
          /\ objects' = objects \
               delete_storage_object_on_document_delete(c, row, objects)
     ELSE UNCHANGED <<documents, objects>>
  /\ Ran(c, "DELETE", "documents", {})
  /\ UNCHANGED <<chat_sessions, chat_messages>>

\* INSERT INTO chat_sessions; id is the primary key.
InsertSession(c, row) ==
  /\ \A s \in chat_sessions : s.id # row.id
  /\ chat_sessions' = IF Granted(c, "chat_sessions") /\ ChatSessionsPolicy(c, row)
                      THEN chat_sessions \cup {row} ELSE chat_sessions
  /\ Ran(c, "INSERT", "chat_sessions", {})
  /\ UNCHANGED <<documents, chat_messages, objects>>

\* UPDATE chat_sessions SET user_id = ... WHERE <row>
UpdateSession(c, row, user) ==
  /\ row \in chat_sessions
  /\ user # row.user_id
  /\ chat_sessions' =
       IF /\ Granted(c, "chat_sessions")
          /\ ChatSessionsPolicy(c, row)
          /\ ChatSessionsPolicy(c, [row EXCEPT !.user_id = user])
       THEN (chat_sessions \ {row}) \cup {[row EXCEPT !.user_id = user]}
       ELSE chat_sessions
  /\ Ran(c, "UPDATE", "chat_sessions", {})
  /\ UNCHANGED <<documents, chat_messages, objects>>

\* DELETE FROM chat_sessions WHERE <row>; its messages go with it.
DeleteSession(c, row) ==
  /\ row \in chat_sessions
  /\ IF Granted(c, "chat_sessions") /\ ChatSessionsPolicy(c, row)
     THEN /\ chat_sessions' = chat_sessions \ {row}
          /\ chat_messages' = chat_messages \ CascadeMessages(row, chat_messages)
     ELSE UNCHANGED <<chat_sessions, chat_messages>>
  /\ Ran(c, "DELETE", "chat_sessions", {})
  /\ UNCHANGED <<documents, objects>>

\* INSERT INTO chat_messages; session_id references chat_sessions(id), and
\* the reference is checked without row-level security.
InsertMessage(c, row) ==
  /\ row \notin chat_messages
  /\ \E s \in chat_sessions : s.id = row.session_id
  /\ chat_messages' = IF Granted(c, "chat_messages") /\ ChatMessagesPolicy(c, row)
                      THEN chat_messages \cup {row} ELSE chat_messages
  /\ Ran(c, "INSERT", "chat_messages", {})
  /\ UNCHANGED <<documents, chat_sessions, objects>>

\* UPDATE chat_messages SET user_id = ... WHERE <row>
UpdateMessage(c, row, user) ==
  /\ row \in chat_messages
  /\ [row EXCEPT !.user_id = user] \notin chat_messages
  /\ chat_messages' =
       IF /\ Granted(c, "chat_messages")
          /\ ChatMessagesPolicy(c, row)
          /\ ChatMessagesPolicy(c, [row EXCEPT !.user_id = user])
       THEN (chat_messages \ {row}) \cup {[row EXCEPT !.user_id = user]}
       ELSE chat_messages
  /\ Ran(c, "UPDATE", "chat_messages", {})
  /\ UNCHANGED <<documents, chat_sessions, objects>>

\* DELETE FROM chat_messages WHERE <row>
DeleteMessage(c, row) ==
  /\ row \in chat_messages
  /\ chat_messages' = IF Granted(c, "chat_messages") /\ ChatMessagesPolicy(c, row)
                      THEN chat_messages \ {row} ELSE chat_messages
  /\ Ran(c, "DELETE", "chat_messages", {})
  /\ UNCHANGED <<documents, chat_sessions, objects>>

\* Upload: INSERT INTO storage.objects
InsertObject(c, obj) ==
  /\ obj \notin objects
  /\ objects' = IF Granted(c, "objects") /\ ObjectsPolicy(c, "INSERT", obj)
                THEN objects \cup {obj} ELSE objects
  /\ Ran(c, "INSERT", "objects", {})
  /\ UNCHANGED <<documents, chat_sessions, chat_messages>>

\* Remove: DELETE FROM storage.objects WHERE <obj>
DeleteObject(c, obj) ==
  /\ obj \in objects
  /\ objects' = IF /\ Granted(c, "objects")
                   /\ ObjectsPolicy(c, "SELECT", obj)
                   /\ ObjectsPolicy(c, "DELETE", obj)
                THEN objects \ {obj} ELSE objects
  /\ Ran(c, "DELETE", "objects", {})
  /\ UNCHANGED <<documents, chat_sessions, chat_messages>>

DbNext ==
  \E c \in Callers :
    \/ SelectDocuments(c)
    \/ SelectSessions(c)
    \/ SelectMessages(c)
    \/ SelectObjects(c)
    \/ SelectView(c)
    \/ \E row \in DocumentRows : InsertDocument(c, row)
    \/ \E row \in DocumentRows :
         \E new \in DocumentUpdates(row) : UpdateDocument(c, row, new)
    \/ \E row \in DocumentRows : DeleteDocument(c, row)
    \/ \E row \in SessionRows : InsertSession(c, row)
    \/ \E row \in SessionRows, user \in Users : UpdateSession(c, row, user)
    \/ \E row \in SessionRows : DeleteSession(c, row)
    \/ \E row \in MessageRows : InsertMessage(c, row)
    \/ \E row \in MessageRows, user \in Users : UpdateMessage(c, row, user)
    \/ \E row \in MessageRows : DeleteMessage(c, row)
    \/ \E obj \in ObjectRows : InsertObject(c, obj)
    \/ \E obj \in ObjectRows : DeleteObject(c, obj)

DbSpec == DbInit /\ [][DbNext]_vars

(* ---------------------------------------------------------------------- *)
(* The chat page                                                           *)
(* ---------------------------------------------------------------------- *)

\* A signed-in session with the chat page shown and settled, an empty
\* database, and the widgets as constructed.
SignedInInit ==
  /\ localStorage = [k \in {AuthKey} |-> "true"]
  /\ pathname = ChatRoute
  /\ requireAuth = TRUE
  /\ isAuthenticated = Some(TRUE)
  /\ queued = Null
  /\ hasRead = TRUE
  /\ authState = Some("true")
  /\ rendered = "children"
  /\ mounted = <<"AuthGuard", "DashboardLayout", "ChatContent">>
  /\ deps = <<Some(TRUE), TRUE>>
  /\ pendingEffects = {}
  /\ pushed = <<>>
  /\ nav = Null
  /\ renders = 0
  /\ via = "visit"
  /\ redirects = 0
  /\ flagChanged = FALSE
  /\ reads = 1
  /\ mounts = 1
  /\ sidebarOpen = FALSE
  /\ sidebarExpanded = FALSE
  /\ lastPointer = "none"
  /\ discarded = Null
  /\ lastEvent = "none"
  /\ activeNav = Some(NavHighlights(ChatRoute))
  /\ linkNav = Null
  /\ DbEmpty
  /\ ChatInitial
  /\ orphanTimers = 0
  /\ WidgetsInitial

\* The chat page is in the document and its gate shows its content.
ChatShown == pathname = ChatRoute /\ rendered = "children"

\* Messages of the user in a list.
UserCount(list) ==
  Cardinality({ i \in 1..Len(list) : list[i].type = "user" })

\* handleSend, called by the entry point `by`.  React applies the three
\* state updates in one render before the next event is handled.
handleSend(by) ==
  IF SendAccepted(input, isLoading)
  THEN /\ UserCount(messages) < MaxSends
       /\ messages' = Append(messages, UserMessage(input))
       /\ input' = ""
       /\ isLoading' = TRUE
       /\ replyTimers' = replyTimers + 1
       /\ chatEvent' = [by |-> by, accepted |-> TRUE]
  ELSE /\ chatEvent' = [by |-> by, accepted |-> FALSE]
       /\ UNCHANGED <<messages, input, isLoading, replyTimers>>

\* The user edits the input field: onChange stores the text.
ChangeInput(text) ==
  /\ ChatShown
  /\ ~InputDisabled(isLoading)
  /\ text # input
  /\ input' = text
  /\ UNCHANGED <<messages, isLoading, replyTimers, orphanTimers, chatEvent>>
  /\ UNCHANGED <<gateVars, browserVars, layoutVars, dbVars, widgetVars>>

\* The user clicks the Send button; a disabled button dispatches nothing.
ClickSend ==
  /\ ChatShown
  /\ IF ButtonDisabled(input, isLoading)
     THEN /\ chatEvent' = [by |-> "button", accepted |-> FALSE]
          /\ UNCHANGED <<messages, input, isLoading, replyTimers>>
     ELSE handleSend("button")
  /\ UNCHANGED orphanTimers
  /\ UNCHANGED <<gateVars, browserVars, layoutVars, dbVars, widgetVars>>

\* How a key press is recorded.
KeyName(key, shiftKey) ==
  IF key = "Enter" /\ shiftKey THEN "Shift+Enter" ELSE key

\* The user presses a key in the input field: handleKeyPress.  A disabled
\* field receives no key.
KeyPress(key, shiftKey) ==
  /\ ChatShown
  /\ IF ~InputDisabled(isLoading) /\ KeySends(key, shiftKey)
     THEN handleSend(KeyName(key, shiftKey))
     ELSE /\ chatEvent' = [by |-> KeyName(key, shiftKey), accepted |-> FALSE]
          /\ UNCHANGED <<messages, input, isLoading, replyTimers>>
  /\ UNCHANGED orphanTimers
  /\ UNCHANGED <<gateVars, browserVars, layoutVars, dbVars, widgetVars>>

ReplyTimerFiresKeepsLoading(i) ==
  /\ replyTimers > 0
  /\ messages' = Append(messages, AssistantMessage(responses[i]))
  /\ replyTimers' = replyTimers - 1
  /\ UNCHANGED <<input, isLoading, orphanTimers, chatEvent>>
  /\ UNCHANGED <<gateVars, browserVars, layoutVars, dbVars, widgetVars>>

\* The reply timer of the chat page shown fires, 1500 ms after the send:
\* Math.random picks the reply, both updates are applied in one render.
ReplyTimerFires(i) ==
  /\ replyTimers > 0
  /\ messages' = Append(messages, AssistantMessage(responses[i]))
  /\ isLoading' = FALSE
  /\ replyTimers' = replyTimers - 1
  /\ UNCHANGED <<input, orphanTimers, chatEvent>>
  /\ UNCHANGED <<gateVars, browserVars, layoutVars, dbVars, widgetVars>>

\* The reply timer of a chat page that was unmounted fires: React ignores
\* state updates of a component that is gone.
OrphanTimerFires ==
  /\ orphanTimers > 0
  /\ orphanTimers' = orphanTimers - 1
  /\ UNCHANGED <<messages, input, isLoading, replyTimers, chatEvent>>
  /\ UNCHANGED <<gateVars, browserVars, layoutVars, dbVars, widgetVars>>

ChatPageNext ==
  \/ \E text \in Inputs : ChangeInput(text)
  \/ ClickSend
  \/ \E key \in Keys, shiftKey \in BOOLEAN : KeyPress(key, shiftKey)
  \/ \E i \in 1..Len(responses) : ReplyTimerFires(i)
  \/ OrphanTimerFires

\* The chat page in a signed-in session: the user chats and moves between
\* the dashboard pages with the links of the rail.
ChatNext ==
  \/ ChatPageNext
  \/ \E item \in NavItems : RailNavClick(item)
  \/ LinkNavigate
  \/ FlushEffects
  \/ RenderUpdate

ChatSpec == SignedInInit /\ [][ChatNext]_vars

\* Timers that are due fire, and React and the router do their work.
ChatLiveSpec ==
  /\ ChatSpec
  /\ WF_vars(\E i \in 1..Len(responses) : ReplyTimerFires(i))
  /\ WF_vars(OrphanTimerFires)
  /\ WF_vars(LinkNavigate)
  /\ WF_vars(FlushEffects)
  /\ WF_vars(RenderUpdate)

(* ---------------------------------------------------------------------- *)
(* The note generator                                                      *)
(* ---------------------------------------------------------------------- *)

\* Two of the documents the first Select offers.
Documents == {"mortgage_application_001.pdf", "tax_return_2023.pdf"}

\* The items of the second Select.
NoteTypes == {"application", "summary"}

TitleKind(type) == IF type = "application" THEN "Application" ELSE "Summary"

\* newNote of handleGenerateNote; createdAt is not kept.
NewNote(now, type, document) ==
  [id |-> now, type |-> type,
   title |-> <<TitleKind(type), " Note - ", document>>,
   content |-> <<>>, status |-> "generating"]

\* sampleContent of the timer callback: its heading and the document it
\* names; the date and the fixed lines are not kept.
sampleContent(type, document) ==
  IF type = "application"
  THEN <<"APPLICATION SUMMARY", document>>
  ELSE <<"EXECUTIVE SUMMARY", document>>

\* disabled of the Generate Notes button.
GenerateDisabledWhileIdle(document, type, generating) ==
  document = "" \/ type = ""

GenerateDisabled(document, type, generating) ==
  document = "" \/ type = "" \/ generating

\* handleGenerateNote goes past its first line.
GenerateAccepted(document, type) == ~(document = "" \/ type = "")

\* The updater of the timer callback: prev.map(...).
CompleteNoteAll(notes, id, content) ==
  [k \in 1..Len(notes) |->
     [notes[k] EXCEPT !.content = content, !.status = "completed"]]

CompleteNote(notes, id, content) ==
  [k \in 1..Len(notes) |->
     IF notes[k].id = id
     THEN [notes[k] EXCEPT !.content = content, !.status = "completed"]
     ELSE notes[k]]

\* The user picks a document.
SelectDocument(document) ==
  /\ document # selectedDocument
  /\ selectedDocument' = document
  /\ UNCHANGED <<noteType, generatedNotes, isGenerating, noteTimers, clock,
                 noteEvent>>
  /\ UNCHANGED <<gateVars, browserVars, layoutVars, dbVars, chatVars, uploadVars>>

\* The user picks a note type.
SelectNoteType(type) ==
  /\ type # noteType
  /\ noteType' = type
  /\ UNCHANGED <<selectedDocument, generatedNotes, isGenerating, noteTimers,
                 clock, noteEvent>>
  /\ UNCHANGED <<gateVars, browserVars, layoutVars, dbVars, chatVars, uploadVars>>

\* handleGenerateNote.  The timer callback closes over noteType,
\* selectedDocument and newNote of this call.
handleGenerateNote ==
  IF GenerateAccepted(selectedDocument, noteType)
  THEN /\ Len(generatedNotes) <= MaxNotes
       /\ isGenerating' = TRUE
       /\ generatedNotes' =
            <<NewNote(clock, noteType, selectedDocument)>> \o generatedNotes
       /\ noteTimers' = noteTimers \cup
            {[id |-> clock, noteType |-> noteType,
              selectedDocument |-> selectedDocument]}
       /\ noteEvent' = "accepted"
  ELSE /\ noteEvent' = "ignored"
       /\ UNCHANGED <<generatedNotes, isGenerating, noteTimers>>

\* The user clicks Generate Notes; a disabled button dispatches nothing.
ClickGenerate ==
  /\ IF GenerateDisabled(selectedDocument, noteType, isGenerating)
     THEN /\ noteEvent' = "ignored"
          /\ UNCHANGED <<generatedNotes, isGenerating, noteTimers>>
     ELSE handleGenerateNote
  /\ UNCHANGED <<selectedDocument, noteType, clock>>
  /\ UNCHANGED <<gateVars, browserVars, layoutVars, dbVars, chatVars, uploadVars>>

GenerationTimerFiresCurrentSelection(t) ==
  /\ t \in noteTimers
  /\ generatedNotes' =
       CompleteNote(generatedNotes, t.id,
                    sampleContent(noteType, selectedDocument))
  /\ isGenerating' = FALSE
  /\ noteTimers' = noteTimers \ {t}
  /\ clock' = clock + 1
  /\ UNCHANGED <<selectedDocument, noteType, noteEvent>>
  /\ UNCHANGED <<gateVars, browserVars, layoutVars, dbVars, chatVars, uploadVars>>

\* The timer of a request fires, 3000 ms after the click.  Date.now() has
\* moved on by then.
GenerationTimerFires(t) ==
  /\ t \in noteTimers
  /\ generatedNotes' =
       CompleteNote(generatedNotes, t.id,
                    sampleContent(t.noteType, t.selectedDocument))
  /\ isGenerating' = FALSE
  /\ noteTimers' = noteTimers \ {t}
  /\ clock' = clock + 1
  /\ UNCHANGED <<selectedDocument, noteType, noteEvent>>
  /\ UNCHANGED <<gateVars, browserVars, layoutVars, dbVars, chatVars, uploadVars>>

NotesNext ==
  \/ \E document \in Documents : SelectDocument(document)
  \/ \E type \in NoteTypes : SelectNoteType(type)
  \/ ClickGenerate
  \/ \E t \in noteTimers : GenerationTimerFires(t)

NotesSpec == SignedInInit /\ [][NotesNext]_vars

(* ---------------------------------------------------------------------- *)
(* The upload dialog                                                       *)
(* ---------------------------------------------------------------------- *)

\* The ids of the files added so far are 1, 2, ...: the ids drawn by
\* Math.random().toString(36).substr(2, 9) are taken to be distinct.
FileIds == 1..MaxFiles

\* What handleFileUpload is called with: null, or a FileList of so many files.
FileLists == {Null} \cup {Some(n) : n \in 0..MaxFiles}

\* The period of the interval and the delay of the timeout that clears it.
TickPeriod == 200

ClearDelay == 2400

\* The ticks that are due strictly before the timeout: those at 200 ms,
\* ..., 2200 ms.  The tick due at 2400 ms is due together with the timeout,
\* and either may run first.
TicksBeforeClear == (ClearDelay - 1) \div TickPeriod

\* The ticks that are due up to and including the time of the timeout.
TicksDue == ClearDelay \div TickPeriod

\* An element of newFiles; name and size are not kept.
NewFile(id) == [id |-> id, progress |-> 0, status |-> "uploading"]

\* What the interval callback returns for the file it belongs to.
TickFileEager(f) ==
  IF f.progress < 100
  THEN [f EXCEPT !.progress = @ + 10,
                 !.status = IF f.progress + 10 = 100 THEN "processing" ELSE @]
  ELSE IF f.status = "processing" THEN [f EXCEPT !.status = "completed"]
  ELSE f

TickFile(f) ==
  IF f.progress < 100 THEN [f EXCEPT !.progress = @ + 10]
  ELSE IF f.status = "uploading" THEN [f EXCEPT !.status = "processing"]
  ELSE IF f.status = "processing" THEN [f EXCEPT !.status = "completed"]
  ELSE f

\* The updater of the interval callback: prev.map(...).
TickFilesAll(list, id) == [k \in 1..Len(list) |-> TickFile(list[k])]

TickFiles(list, id) ==
  [k \in 1..Len(list) |-> IF list[k].id = id THEN TickFile(list[k]) ELSE list[k]]

\* prev.filter((f) => f.id !== id)
RECURSIVE WithoutFile(_, _)
WithoutFile(list, id) ==
  IF list = <<>> THEN <<>>
  ELSE IF Head(list).id = id THEN WithoutFile(Tail(list), id)
  ELSE <<Head(list)>> \o WithoutFile(Tail(list), id)

Listed(list, id) == \E k \in 1..Len(list) : list[k].id = id

uploadFrame == <<gateVars, browserVars, layoutVars, dbVars, chatVars, notesVars>>

\* handleFileUpload, from onDrop or from the file input's onChange.  Each
\* new file gets an interval and the timeout that clears it.
handleFileUpload(selectedFiles) ==
  /\ IF selectedFiles = Null
     THEN /\ uploadEvent' = [op |-> "ignored", id |-> 0]
          /\ UNCHANGED <<files, intervals>>
     ELSE LET n == selectedFiles[1]
              first == Len(intervals) + 1
          IN /\ Len(intervals) + n <= MaxFiles
             /\ files' = files \o [k \in 1..n |-> NewFile(first + k - 1)]
             /\ intervals' = intervals \o
                  [k \in 1..n |-> [ticks |-> 0, cleared |-> FALSE]]
             /\ uploadEvent' = [op |-> "upload", id |-> n]
  /\ UNCHANGED uploadFrame

\* The interval of file id ticks.
Tick(id) ==
  /\ id \in 1..Len(intervals)
  /\ ~intervals[id].cleared
  /\ intervals[id].ticks < TicksDue
  /\ files' = TickFiles(files, id)
  /\ intervals' = [intervals EXCEPT ![id].ticks = @ + 1]
  /\ uploadEvent' = [op |-> "tick", id |-> id]
  /\ UNCHANGED uploadFrame

\* The timeout of file id clears its interval.
ClearInterval(id) ==
  /\ id \in 1..Len(intervals)
  /\ ~intervals[id].cleared
  /\ intervals[id].ticks >= TicksBeforeClear
  /\ intervals' = [intervals EXCEPT ![id].cleared = TRUE]
  /\ uploadEvent' = [op |-> "clear", id |-> id]
  /\ UNCHANGED files
  /\ UNCHANGED uploadFrame

\* The X button of a listed file.
removeFile(id) ==
  /\ Listed(files, id)
  /\ files' = WithoutFile(files, id)
  /\ uploadEvent' = [op |-> "remove", id |-> id]
  /\ UNCHANGED intervals
  /\ UNCHANGED uploadFrame

\* The Process All button, shown while the list is not empty.
ProcessAll ==
  /\ Len(files) > 0
  /\ files' = <<>>
  /\ uploadEvent' = [op |-> "processAll", id |-> 0]
  /\ UNCHANGED intervals
  /\ UNCHANGED uploadFrame

UploadNext ==
  \/ \E selectedFiles \in FileLists : handleFileUpload(selectedFiles)
  \/ \E id \in FileIds : Tick(id)
  \/ \E id \in FileIds : ClearInterval(id)
  \/ \E id \in FileIds : removeFile(id)
  \/ ProcessAll

UploadSpec == SignedInInit /\ [][UploadNext]_vars

\* Every timer that is due runs.
UploadLiveSpec ==
  /\ UploadSpec
  /\ \A id \in FileIds : WF_vars(Tick(id)) /\ WF_vars(ClearInterval(id))

(* ---------------------------------------------------------------------- *)
(* Properties of the session gate                                          *)
(* ---------------------------------------------------------------------- *)

\* The persisted flag.
Flag == getItem(localStorage, AuthKey)

\* Some child of the gate is in the document.
ChildrenInDocument == Len(mounted) > GateIndex(mounted)

C2_PublicNeverShownWhileFlagTrue ==
  (~requireAuth /\ Flag = Some("true")) =>
    (rendered # "children" /\ ~ChildrenInDocument)

\* C2 amended: a gate with requireAuth = false that read the flag as "true"
\* never has its children rendered; it shows the spinner or nothing.
C2_PublicNeverShownAfterTrueRead ==
  (~requireAuth /\ hasRead /\ authState = Some("true")) =>
    (rendered \in {"spinner", "null"} /\ ~ChildrenInDocument)

C2_Witness ==
  /\ ~requireAuth
  /\ hasRead
  /\ authState = Some("true")
  /\ isAuthenticated = Some(TRUE)
  /\ rendered = "null"

\* C3: every dashboard page has the gate outermost, with requireAuth left
\* out, and the layout inside it; so the layout and the page content are in
\* the document only if the gate of the page read the flag as "true".
InDocument(component) == \E i \in 1..Len(mounted) : mounted[i] = component

C3_DashboardBehindGate ==
  /\ \A route \in DashboardRoutes :
       /\ PageOf(route).requireAuth = Null
       /\ PageOf(route).tree[1] = "AuthGuard"
       /\ PageOf(route).tree[2] = "DashboardLayout"
  /\ (pathname \in DashboardRoutes
        /\ \E i \in 1..Len(mounted) : mounted[i] # "AuthGuard")
     => (requireAuth /\ hasRead /\ authState = Some("true")
           /\ isAuthenticated = Some(TRUE))

C3_Witness ==
  /\ pathname = SettingsRoute
  /\ InDocument("DashboardLayout")
  /\ InDocument("SettingsContent")
  /\ authState = Some("true")

\* C4: a gate with requireAuth = true that has read a flag other than "true"
\* (its state is "not authenticated": the read is applied by the render that
\* follows checkAuth) renders nothing, neither children nor spinner, pushes
\* no route but /login, and eventually pushes /login.
ProtectedMismatch == requireAuth /\ isAuthenticated = Some(FALSE)

PublicMismatch == ~requireAuth /\ isAuthenticated = Some(TRUE)

C5_RedirectsToChat ==
  /\ [](PublicMismatch =>
          /\ rendered = "null"
          /\ mounted = <<"AuthGuard">>
          /\ pushed \in {<<>>, <<ChatRoute>>})
  /\ (PublicMismatch ~> (PublicMismatch /\ pushed = <<ChatRoute>>))

C5_Witness ==
  /\ PublicMismatch
  /\ pathname = LoginRoute
  /\ pushed = <<ChatRoute>>
  /\ nav = Some(ChatRoute)

\* C6: once the state is known the output is the decision table: children,
\* unchanged, when requireAuth and the state agree; nothing when they differ.
DecisionTable ==
  [req \in BOOLEAN, auth \in BOOLEAN |->
     CASE req /\ auth -> "children"
       [] req /\ ~auth -> "null"
       [] ~req /\ auth -> "null"
       [] ~req /\ ~auth -> "children"]

C6_DecisionTable ==
  isAuthenticated # Null =>
    /\ rendered = DecisionTable[requireAuth, isAuthenticated[1]]
    /\ rendered = "children" => mounted = PageOf(pathname).tree
    /\ rendered = "null" => mounted = <<"AuthGuard">>

C6_Witness ==
  /\ ~requireAuth
  /\ isAuthenticated = Some(FALSE)
  /\ rendered = "children"
  /\ mounted = <<"AuthGuard", "LoginForm">>

\* C7: the state the gate takes is "authenticated" exactly when the value it
\* read under medcontext_auth is the string "true"; an absent key and every
\* other value give "not authenticated"; a read always gives one of the two.
C7_ExactlyTrue ==
  /\ hasRead => (queued # Null \/ isAuthenticated # Null)
  /\ queued # Null => queued = Some(authState = Some("true"))
  /\ isAuthenticated # Null =>
       (hasRead /\ isAuthenticated = Some(authState = Some("true")))

C7_Witness ==
  /\ hasRead
  /\ authState = Some("TRUE")
  /\ isAuthenticated = Some(FALSE)

\* C8: until the flag is read the state is null; while the state is null the
\* gate shows the spinner, no children, and has pushed no route.
C8_LoadingShowsSpinner ==
  /\ ~hasRead => isAuthenticated = Null
  /\ isAuthenticated = Null =>
       /\ rendered = "spinner"
       /\ ~ChildrenInDocument
       /\ pushed = <<>>
       /\ nav = Null

C8_Witness ==
  /\ isAuthenticated = Null
  /\ ~requireAuth
  /\ Flag = Some("true")
  /\ pendingEffects = {}
  /\ rendered = "spinner"

\* C9: an instance pushes only on a mismatch, once: after the effect of the
\* render that found the mismatch has run it has pushed exactly one route,
\* and no later render adds a second.
C9_PushExactlyOnce ==
  /\ Len(pushed) <= 1
  /\ pushed # <<>> => (ProtectedMismatch \/ PublicMismatch)
  /\ ((ProtectedMismatch \/ PublicMismatch) /\ pendingEffects = {})
       => Len(pushed) = 1

C9_Witness ==
  /\ Len(pushed) = 1
  /\ renders = MaxRerenders
  /\ pendingEffects = {}
  /\ nav # Null

\* C10: while the flag is not changed, the page a redirect leads to does not
\* redirect, it renders its children; a visit causes at most one redirect.
C10_NoRedirectLoop ==
  ~flagChanged =>
    /\ redirects <= 1
    /\ via = "redirect" =>
         /\ redirects = 1
         /\ pushed = <<>>
         /\ isAuthenticated # Null => rendered = "children"

C10_Witness ==
  /\ ~flagChanged
  /\ via = "redirect"
  /\ redirects = 1
  /\ pathname = ChatRoute
  /\ rendered = "children"
  /\ pendingEffects = {}

\* C11: a gate whose requireAuth agrees with the flag it read never pushes a
\* route, at the first mount of the page or at any later one, and once its
\* React work is done its children are rendered.
CorrectlyAuthorized == hasRead /\ (requireAuth <=> authState = Some("true"))

C11_CorrectMountNeverRedirects ==
  /\ pushed # <<>> => (hasRead /\ ~CorrectlyAuthorized)
  /\ CorrectlyAuthorized => nav = Null
  /\ (CorrectlyAuthorized /\ Settled) =>
       (rendered = "children" /\ mounted = PageOf(pathname).tree)

C11_Witness ==
  /\ CorrectlyAuthorized
  /\ ~requireAuth
  /\ mounts = MountCap
  /\ Settled
  /\ rendered = "children"
  /\ pushed = <<>>

\* C12: the state of a gate instance starts as Loading, goes from Loading to
\* one of Authorized, Unauthorized, Redirecting, and never changes after
\* that; only a new instance (the page is replaced) is in Loading again.
GateState ==
  CASE isAuthenticated = Null -> "Loading"
    [] ProtectedMismatch \/ PublicMismatch -> "Redirecting"
    [] isAuthenticated = Some(TRUE) /\ requireAuth -> "Authorized"
    [] isAuthenticated = Some(FALSE) /\ ~requireAuth -> "Unauthorized"

\* A step that replaces the page, and with it the gate instance.
Remount == (\E route \in Routes : Visit(route)) \/ Navigate \/ LinkNavigate

C12_StateMachine ==
  /\ GateState = "Loading"
  /\ [][IF Remount THEN GateState' = "Loading"
        ELSE (GateState = "Loading" \/ GateState' = GateState)]_vars

C12_Witness ==
  /\ GateState = "Unauthorized"
  /\ Flag = Some("true")
  /\ renders = MaxRerenders
  /\ Settled

\* C13: an instance calls getItem once, after its first render; whatever is
\* stored afterwards, by anyone, its state, its output and its pushes stay
\* those of the value it read until the page is replaced.
C13_ReadOnceAtMount ==
  /\ [](/\ reads <= 1
        /\ hasRead <=> reads = 1
        /\ isAuthenticated # Null =>
             /\ isAuthenticated = Some(authState = Some("true"))
             /\ rendered = DecisionTable[requireAuth, authState = Some("true")])
  /\ [][(~Remount /\ hasRead) =>
          /\ authState' = authState
          /\ reads' = reads
          /\ isAuthenticated # Null =>
               (isAuthenticated' = isAuthenticated /\ rendered' = rendered)]_vars

C13_Witness ==
  /\ hasRead
  /\ requireAuth
  /\ authState = Some("true")
  /\ Flag = Null
  /\ rendered = "children"
  /\ renders = MaxRerenders
  /\ Settled

\* C14: only the login form writes the flag: no step of the gate, the
\* layout or a dashboard page changes what is stored, a click on any item of
\* the user menu included.
C14_FlagNotWritten ==
  [][(LoginSubmit \/ OtherTabLogin) \/ localStorage' = localStorage]_vars

C14_Witness ==
  /\ lastEvent = "Log out"
  /\ Flag = Some("true")
  /\ pathname = SettingsRoute
  /\ via = "link"
  /\ InDocument("DashboardLayout")

\* C15: in a layout instance sidebarOpen becomes true only by the menu
\* button, becomes false only by a navigation entry of the overlay or by
\* dismissing the overlay, and a click on an entry of the desktop rail
\* leaves it as it is.  (An instance that leaves the document has no state.)
C15_SidebarOpenCauses ==
  [][/\ (~sidebarOpen /\ sidebarOpen') => lastEvent' = "menu button"
     /\ (sidebarOpen /\ ~sidebarOpen') =>
          \/ DismissOverlay
          \/ \E item \in NavItems : MobileNavClick(item)
          \/ (Remount /\ ~LayoutIn(mounted'))
     /\ (\E item \in NavItems : RailNavClick(item)) => sidebarOpen' = sidebarOpen
     /\ lastEvent' = "rail nav" => sidebarOpen' = sidebarOpen]_vars

C15_Witness ==
  /\ lastEvent = "overlay nav"
  /\ ~sidebarOpen
  /\ linkNav = Some(AgentsRoute)
  /\ pathname = ChatRoute

\* C16: sidebarExpanded is false in a layout instance that saw no pointer
\* event on its rail, and otherwise true exactly when the last such event
\* was an enter; a change of sidebarOpen leaves it as it is.
C16_ExpandedFollowsPointer ==
  /\ [](LayoutIn(mounted) => (sidebarExpanded <=> lastPointer = "enter"))
  /\ [][(LayoutIn(mounted) /\ LayoutIn(mounted') /\ sidebarOpen' # sidebarOpen)
          => sidebarExpanded' = sidebarExpanded]_vars

C16_Witness ==
  /\ InDocument("DashboardLayout")
  /\ lastPointer = "leave"
  /\ ~sidebarExpanded
  /\ sidebarOpen
  /\ lastEvent = "menu button"

\* C17: a layout instance that enters the document starts with sidebarOpen
\* and sidebarExpanded false, whatever the instance before it ended with.
C17_ResetOnRemount ==
  [][(~LayoutIn(mounted) /\ LayoutIn(mounted'))
       => (~sidebarOpen' /\ ~sidebarExpanded' /\ discarded' = discarded)]_vars

C17_Witness ==
  /\ InDocument("DashboardLayout")
  /\ via = "link"
  /\ discarded = Some([sidebarOpen |-> FALSE, sidebarExpanded |-> TRUE])
  /\ lastEvent = "none"
  /\ ~sidebarOpen
  /\ ~sidebarExpanded

\* C18: an entry is highlighted exactly when the path equals its href: both
\* lists highlight the same entry, at most one; /dashboard/settings
\* highlights Settings; a path that is not an href, a prefix or an
\* extension of one included, highlights none.
Hrefs == { navigation[i].href : i \in 1..Len(navigation) }

C18_ExactHighlight ==
  activeNav # Null =>
    LET shown == activeNav[1] IN
      /\ \A i \in 1..Len(navigation) :
           /\ navigation[i].name \in shown.mobile <=> pathname = navigation[i].href
           /\ navigation[i].name \in shown.desktop <=> pathname = navigation[i].href
      /\ shown.mobile = shown.desktop
      /\ Cardinality(shown.mobile) <= 1
      /\ pathname = SettingsRoute => shown.mobile = {"Settings"}
      /\ pathname \notin Hrefs => (shown.mobile = {} /\ shown.desktop = {})

C18_Witness ==
  /\ activeNav = Some([mobile |-> {}, desktop |-> {}])
  /\ pathname = <<"dashboard", "chat", "1">>

(* ---------------------------------------------------------------------- *)
(* Properties of the database                                              *)
(* ---------------------------------------------------------------------- *)

\* Rows a step added to or removed from a table.
Changed(before, after) == (before \ after) \cup (after \ before)

\* auth.uid() equals the row's user_id.
OwnedBy(uid, row) == SqlEq(uid, Some(row.user_id))

\* auth.uid() equals the first folder segment of the object's name.
InFolderOf(uid, obj) == SqlEq(uid, FirstFolder(obj.name))

\* Relations whose rows are rows of the three tables; the view returns
\* rows of documents.
RowRelations ==
  {"documents", "advanced_processed_documents", "chat_sessions",
   "chat_messages"}

\* C19: a statement of a caller that is not the service role returns,
\* inserts, updates or deletes a documents, chat_sessions or chat_messages
\* row only if auth.uid() equals the row's user_id, and returns, inserts or
\* deletes an object of bucket 'documents' only if auth.uid() equals the
\* first folder segment of its name; a statement of the service role
\* returns every row of the relation it selects from and takes effect on
\* the row it names.
C19_OnlyOwnRows ==
  [][ /\ lastOp'.role # "service_role" =>
           /\ \A row \in Changed(documents, documents') :
                OwnedBy(lastOp'.uid, row)
           /\ \A row \in Changed(chat_sessions, chat_sessions') :
                OwnedBy(lastOp'.uid, row)
           /\ \A row \in Changed(chat_messages, chat_messages') :
                OwnedBy(lastOp'.uid, row)
           /\ \A obj \in Changed(objects, objects') :
                obj.bucket_id = "documents" => InFolderOf(lastOp'.uid, obj)
           /\ lastOp'.relation \in RowRelations =>
                \A row \in lastOp'.rows : OwnedBy(lastOp'.uid, row)
           /\ lastOp'.relation = "objects" =>
                \A obj \in lastOp'.rows :
                  obj.bucket_id = "documents" => InFolderOf(lastOp'.uid, obj)
      /\ lastOp'.role = "service_role" =>
           /\ lastOp'.op = "SELECT" /\ lastOp'.relation = "documents" =>
                lastOp'.rows = documents
           /\ lastOp'.op = "SELECT" /\ lastOp'.relation = "chat_sessions" =>
                lastOp'.rows = chat_sessions
           /\ lastOp'.op = "SELECT" /\ lastOp'.relation = "chat_messages" =>
                lastOp'.rows = chat_messages
           /\ lastOp'.op = "SELECT" /\ lastOp'.relation = "objects" =>
                lastOp'.rows = { obj \in objects : obj.bucket_id = "documents" }
           /\ lastOp'.op # "SELECT" /\ lastOp'.relation = "documents" =>
                documents' # documents
           /\ lastOp'.op # "SELECT" /\ lastOp'.relation = "chat_sessions" =>
                chat_sessions' # chat_sessions
           /\ lastOp'.op # "SELECT" /\ lastOp'.relation = "chat_messages" =>
                chat_messages' # chat_messages
    ]_vars

\* The object a documents row points at.
ObjectOf(row) == [bucket_id |-> "documents", name |-> row.file_path]

\* C20: after a delete of a documents row no object of bucket 'documents'
\* named by that row's file_path remains, and no other object is removed
\* or added.
C20_StorageCleanedUp ==
  [][ lastOp'.op = "DELETE" /\ lastOp'.relation = "documents" =>
        /\ \A row \in documents \ documents' : ObjectOf(row) \notin objects'
        /\ \A obj \in Changed(objects, objects') :
             \E row \in documents \ documents' : obj = ObjectOf(row)
    ]_vars

(* ---------------------------------------------------------------------- *)
(* Properties of the chat page                                             *)
(* ---------------------------------------------------------------------- *)

\* The send that made the list n long has got its reply.
Answered(n) ==
  /\ ~isLoading
  /\ Len(messages) = n + 1
  /\ messages[n].type = "user"
  /\ messages[n + 1].type = "assistant"

\* Lengths of the list right after a send.
SendLengths == 2..(2 * MaxSends)

\* A timer goes only by firing.
TimersOnlyFire ==
  [][ replyTimers' + orphanTimers' < replyTimers + orphanTimers =>
        \/ \E i \in 1..Len(responses) : ReplyTimerFires(i)
        \/ OrphanTimerFires ]_vars

\* A reply is added only to answer the awaited send, one message at a time.
OneReplyPerSend ==
  [][ Len(messages') > Len(messages) /\ messages'[Len(messages')].type = "assistant" =>
        /\ isLoading /\ ~isLoading'
        /\ messages' = Append(messages, messages'[Len(messages')])
        /\ messages[Len(messages)].type = "user" ]_vars

\* Every reply is a canned response with its own confidence.
CannedReplies ==
  \A k \in 2..Len(messages) :
    messages[k].type = "assistant" =>
      \E i \in 1..Len(responses) :
        /\ messages[k].content = responses[i].content
        /\ messages[k].confidence = Some(responses[i].confidence)

\* C21 as stated: every accepted send is eventually followed by its reply,
\* appended right after the user message, with isLoading false again.
C21_EverySendAnswered ==
  \A n \in SendLengths : (isLoading /\ Len(messages) = n) ~> Answered(n)

\* C21: every accepted send is eventually followed by its reply, appended
\* right after the user message, with isLoading false again, unless the
\* chat page is unmounted while the reply is awaited; the timer is never
\* cancelled, one reply is added per send, and it is one of the three
\* canned responses with its paired confidence.
C21_EverySendAnsweredWhileMounted ==
  /\ \A n \in SendLengths :
       (isLoading /\ Len(messages) = n) ~> (Answered(n) \/ orphanTimers > 0)
  /\ TimersOnlyFire
  /\ OneReplyPerSend
  /\ [](replyTimers = IF isLoading THEN 1 ELSE 0)
  /\ []CannedReplies

C21_Witness ==
  /\ Answered(2)
  /\ messages[3] = AssistantMessage(responses[2])
  /\ chatEvent.accepted
  /\ orphanTimers = 0

\* C23: the list starts with the greeting and alternates assistant, user,
\* assistant, ...; isLoading holds exactly when the last message is the
\* user's; at most one reply is pending.
C23_Alternates ==
  /\ messages[1] = Greeting
  /\ \A k \in 1..Len(messages) :
       messages[k].type = IF k % 2 = 1 THEN "assistant" ELSE "user"
  /\ isLoading <=> messages[Len(messages)].type = "user"
  /\ replyTimers <= 1
  /\ isLoading <=> replyTimers = 1

C23_Witness ==
  /\ Len(messages) = 4
  /\ isLoading
  /\ replyTimers = 1

\* The state handleSend may change.
sendVars == <<messages, input, isLoading, replyTimers>>

\* C24: a Send click or a key press changes nothing and starts no timer
\* when the input is empty or whitespace-only or a reply is awaited, and
\* Shift+Enter never sends.
C24_NoOpSend ==
  [][ /\ ( /\ (ClickSend \/
                 (\E key \in Keys, shiftKey \in BOOLEAN : KeyPress(key, shiftKey)))
           /\ (trim(input) = "" \/ isLoading) )
         => UNCHANGED sendVars
      /\ KeyPress("Enter", TRUE) => UNCHANGED sendVars ]_vars

C24_Witness ==
  /\ chatEvent = [by |-> "Enter", accepted |-> FALSE]
  /\ input = "  "
  /\ ~isLoading
  /\ Len(messages) = 3

(* ---------------------------------------------------------------------- *)
(* Properties of the note generator                                        *)
(* ---------------------------------------------------------------------- *)

NoteAt(notes, id) == {k \in 1..Len(notes) : notes[k].id = id}

Generating(notes) == {k \in 1..Len(notes) : notes[k].status = "generating"}

\* An accepted request puts one new note, generating and empty, in front of
\* the list and leaves the notes that were there as they were.
RequestPrepends ==
  [][/\ Len(generatedNotes') # Len(generatedNotes) =>
          /\ generatedNotes' = <<Head(generatedNotes')>> \o generatedNotes
          /\ Head(generatedNotes').status = "generating"
          /\ Head(generatedNotes').content = <<>>
          /\ NoteAt(generatedNotes, Head(generatedNotes').id) = {}
     /\ (ClickGenerate
         /\ ~GenerateDisabled(selectedDocument, noteType, isGenerating)) =>
          Len(generatedNotes') = Len(generatedNotes) + 1]_vars

\* The timer of a request completes the note of that request and no other.
TimerCompletesItsNote ==
  [][\A t \in noteTimers : GenerationTimerFires(t) =>
       /\ Cardinality(NoteAt(generatedNotes, t.id)) = 1
       /\ Len(generatedNotes') = Len(generatedNotes)
       /\ \A k \in 1..Len(generatedNotes) :
            IF generatedNotes[k].id = t.id
            THEN /\ generatedNotes[k].status = "generating"
                 /\ generatedNotes'[k].status = "completed"
                 /\ generatedNotes'[k].content # <<>>
                 /\ generatedNotes'[k].id = generatedNotes[k].id
                 /\ generatedNotes'[k].type = generatedNotes[k].type
                 /\ generatedNotes'[k].title = generatedNotes[k].title
            ELSE generatedNotes'[k] = generatedNotes[k]]_vars

CompletedIffContent ==
  \A k \in 1..Len(generatedNotes) :
    generatedNotes[k].status = "completed" <=> generatedNotes[k].content # <<>>

CompletedStays ==
  [][\A k \in 1..Len(generatedNotes) : \A j \in 1..Len(generatedNotes') :
       (/\ generatedNotes[k].id = generatedNotes'[j].id
        /\ generatedNotes[k].status = "completed") =>
         generatedNotes'[j].status = "completed"]_vars

\* C22: an accepted request prepends exactly one new note that is
\* "generating" with empty content; when its timer fires exactly the note
\* with that id becomes "completed" with non-empty content and every other
\* note is unchanged; a note is "completed" iff its content is non-empty;
\* no note goes from "completed" back to "generating".
C22_NoteLifecycle ==
  /\ RequestPrepends
  /\ TimerCompletesItsNote
  /\ []CompletedIffContent
  /\ CompletedStays

\* Two generated notes, the older completed by its timer while the initial
\* note is still there, the newer still generating.
C22_Witness ==
  /\ Len(generatedNotes) = 3
  /\ generatedNotes[1].status = "generating"
  /\ generatedNotes[2].status = "completed"
  /\ generatedNotes[2].id # InitialNote.id
  /\ generatedNotes[3] = InitialNote

\* C28: at most one note is "generating" and isGenerating is true exactly
\* while there is one; a request is accepted only when a document and a
\* note type are selected and no generation is in progress; a request with
\* an empty document or note type changes nothing.
C28_OneGenerationAtATime ==
  /\ [](/\ Cardinality(Generating(generatedNotes)) <= 1
        /\ isGenerating <=> Generating(generatedNotes) # {}
        /\ Cardinality(noteTimers) = Cardinality(Generating(generatedNotes)))
  /\ [][/\ Len(generatedNotes') # Len(generatedNotes) =>
             selectedDocument # "" /\ noteType # "" /\ ~isGenerating
        /\ (ClickGenerate /\ (selectedDocument = "" \/ noteType = "")) =>
             UNCHANGED <<selectedDocument, noteType, generatedNotes,
                         isGenerating, noteTimers>>]_vars

\* A click on Generate Notes was ignored while a note is being generated.
C28_Witness ==
  /\ isGenerating
  /\ noteEvent = "ignored"
  /\ generatedNotes[1].status = "generating"
  /\ selectedDocument # "" /\ noteType # ""

\* The type, title, content and document of a note agree with one request.
FromRequest(note, type, document) ==
  /\ note.type = type
  /\ note.title = <<TitleKind(type), " Note - ", document>>
  /\ note.content \in {<<>>, sampleContent(type, document)}

\* C29: the type, the title, the kind of content and the document name of
\* a generated note all come from the selection at the click, whatever the
\* user selects while the note is being generated.
C29_SelectionAtClick ==
  /\ [](\A k \in 1..Len(generatedNotes) :
          generatedNotes[k].id # InitialNote.id =>
            \E type \in NoteTypes : \E document \in Documents :
              FromRequest(generatedNotes[k], type, document))
  /\ [][(ClickGenerate /\ Len(generatedNotes') # Len(generatedNotes)) =>
          /\ FromRequest(Head(generatedNotes'), noteType, selectedDocument)
          /\ noteTimers' \ noteTimers =
               {[id |-> Head(generatedNotes').id, noteType |-> noteType,
                 selectedDocument |-> selectedDocument]}]_vars
  /\ [][\A t \in noteTimers : GenerationTimerFires(t) =>
          \A k \in NoteAt(generatedNotes', t.id) :
            /\ FromRequest(generatedNotes'[k], t.noteType, t.selectedDocument)
            /\ generatedNotes'[k].content # <<>>]_vars

\* A note was completed after the user had changed both selections.
C29_Witness ==
  /\ Len(generatedNotes) >= 2
  /\ generatedNotes[1].status = "completed"
  /\ generatedNotes[1].type # noteType
  /\ generatedNotes[1].title[3] # selectedDocument
  /\ noteEvent = "accepted"

(* ---------------------------------------------------------------------- *)
(* Properties of the upload dialog                                         *)
(* ---------------------------------------------------------------------- *)

FileOf(list, id) == list[CHOOSE k \in 1..Len(list) : list[k].id = id]

Completed(id) ==
  /\ Listed(files, id)
  /\ FileOf(files, id).status = "completed"
  /\ FileOf(files, id).progress = 100

\* C25: every file added by handleFileUpload and not removed eventually
\* reaches "completed" with progress 100, before its interval is cleared,
\* and stays completed; no file stays in "uploading" or "processing" for ever.
C25_EveryFileCompletes ==
  /\ \A id \in FileIds :
       Listed(files, id) ~> (~Listed(files, id) \/ Completed(id))
  /\ [][\A id \in FileIds :
          (ClearInterval(id) /\ Listed(files, id)) => Completed(id)]_vars
  /\ [][\A id \in FileIds :
          (Completed(id) /\ Listed(files', id)) => Completed(id)']_vars

Steps == {<<"uploading", "processing">>, <<"processing", "completed">>}

\* C26: progress is a multiple of 10 between 0 and 100 and never goes
\* down; status is "uploading" while progress is below 100; status moves
\* only forward, one step per tick of the file's own interval and only once
\* progress is 100; no file ever has status "error".
C26_ProgressAndStatus ==
  /\ [](\A k \in 1..Len(files) :
          /\ files[k].progress \in {10 * n : n \in 0..10}
          /\ files[k].status \in {"uploading", "processing", "completed"}
          /\ files[k].progress < 100 => files[k].status = "uploading")
  /\ [][\A k \in 1..Len(files) : \A j \in 1..Len(files') :
          files[k].id = files'[j].id =>
            /\ files'[j].progress >= files[k].progress
            /\ files'[j].status # files[k].status =>
                 /\ Tick(files[k].id)
                 /\ files[k].progress = 100
                 /\ files'[j].progress = 100
                 /\ <<files[k].status, files'[j].status>> \in Steps]_vars

\* A file went through every step: the twelfth tick ran before the timeout.
C26_Witness ==
  \E id \in FileIds :
    /\ Completed(id)
    /\ intervals[id].ticks = TicksDue
    /\ uploadEvent = [op |-> "tick", id |-> id]

\* C27: a tick of file f changes only the entry with id f; removeFile(id)
\* removes exactly that entry; Process All empties the list; a tick for a
\* file that is no longer listed leaves the list unchanged, so a removed
\* file never comes back; handleFileUpload(null) changes nothing.
C27_OnlyItsOwnEntry ==
  /\ [][\A id \in FileIds : Tick(id) =>
          /\ Len(files') = Len(files)
          /\ \A k \in 1..Len(files) :
               /\ files'[k].id = files[k].id
               /\ files[k].id # id => files'[k] = files[k]
          /\ ~Listed(files, id) => files' = files]_vars
  /\ [][\A id \in FileIds : removeFile(id) =>
          \E k \in 1..Len(files) :
            /\ files[k].id = id
            /\ files' = SubSeq(files, 1, k - 1) \o SubSeq(files, k + 1, Len(files))
            /\ ~Listed(files', id)]_vars
  /\ [][ProcessAll => files' = <<>>]_vars
  /\ [][\A id \in FileIds :
          (id <= Len(intervals) /\ ~Listed(files, id)) => ~Listed(files', id)]_vars
  /\ [][handleFileUpload(Null) => UNCHANGED <<files, intervals>>]_vars

\* The interval of a removed file ticked while another file was listed and
\* under way.
C27_Witness ==
  \E id \in FileIds :
    /\ uploadEvent = [op |-> "tick", id |-> id]
    /\ ~Listed(files, id)
    /\ \E k \in 1..Len(files) : files[k].progress \in 10..90

====
